---- MODULE Spec2Model ----
(***************************************************************************)
(* Model of src/anamoly_detection/api_server.py: the POST /detect handler  *)
(* (detect_anomalies) and the Z-score detector it calls                    *)
(* (detect_temporal_anomalies).                                            *)
(*                                                                         *)
(* Numbers.  Measurements are integers counted in units of 1e-6, the       *)
(* detector's epsilon, so "np.std(values) < 1e-6" is "std < Epsilon" with  *)
(* Epsilon = 1 unit.  Mean, standard deviation and Z-score are kept as     *)
(* exact rationals: with n values, S their sum and Q the sum of their      *)
(* squares,                                                                *)
(*     mean = S / n,   std = sqrt(D) / n,   D = n*Q - S*S,                 *)
(*     z(x) = (x - mean) / std = (n*x - S) / sqrt(D),                      *)
(* and every comparison is made on the squares, in integers.  The rounding *)
(* error of the binary64 evaluation is not represented: at an exact tie    *)
(* |z| = threshold the model compares the exact values.                    *)
(***************************************************************************)
EXTENDS Integers, Sequences, FiniteSets, Bags

(***************************************************************************)
(* Bounds of the model and the inputs drawn under them.                    *)
(***************************************************************************)
MaxObs == 4

Stations == {"A", "B"}

Timestamps == {0, 60}

\* Sample rows of the five measurements, in units of 1e-6.
\* temp_out and bar move by 3 units, rain by 2, wind_speed by 1 (below the
\* epsilon for every station of the model), out_hum is constant.
Readings ==
  { [temp_out |-> 0, out_hum |-> 0, wind_speed |-> 0, bar |-> 3, rain |-> 0],
    [temp_out |-> 3, out_hum |-> 0, wind_speed |-> 1, bar |-> 0, rain |-> 2] }

\* Thresholds are fractions num/den.  The request accepts [1.0, 5.0] and
\* 5/2 is its default; the detector itself takes any positive threshold.
DefaultThreshold == [num |-> 5, den |-> 2]

Thresholds ==
  { [num |-> 1, den |-> 1], [num |-> 3, den |-> 2], [num |-> 2, den |-> 1],
    DefaultThreshold }

DetectorThresholds == Thresholds \cup { [num |-> 2, den |-> 3] }

WindowLens == {3, 60}

Strides == {1, 18}

(***************************************************************************)
(* Data models (pydantic classes).                                         *)
(***************************************************************************)
Observation ==
  { [station_id |-> s, timestamp |-> t, temp_out |-> r.temp_out,
     out_hum |-> r.out_hum, wind_speed |-> r.wind_speed, bar |-> r.bar,
     rain |-> r.rain] : s \in Stations, t \in Timestamps, r \in Readings }

\* a burst of MaxObs + 1 observations of one station on one timestamp: the
\* shortest batch in which a Z-score reaches 2
StationBatches ==
  [1..(MaxObs + 1) ->
     {obs \in Observation : obs.station_id = "A" /\ obs.timestamp = 0}]

\* the lists of the model: every list of up to MaxObs observations, and the
\* batches of one station
ObservationLists ==
  UNION { [1..k -> Observation] : k \in 0..MaxObs } \cup StationBatches

DetectionRequest ==
  [observations : ObservationLists, window_len : WindowLens,
   stride : Strides, threshold : Thresholds]

(***************************************************************************)
(* Arithmetic helpers.                                                     *)
(***************************************************************************)
Abs(x) == IF x < 0 THEN -x ELSE x

RECURSIVE SumSeq(_)
SumSeq(values) ==
  IF values = <<>> THEN 0 ELSE values[1] + SumSeq(Tail(values))

SquareSeq(values) == [i \in 1..Len(values) |-> values[i] * values[i]]

\* floor(sqrt(x)) by bisection on lo..hi, lo*lo <= x < (hi+1)*(hi+1)
RECURSIVE IsqrtIn(_, _, _)
IsqrtIn(x, lo, hi) ==
  IF lo = hi THEN lo
  ELSE LET mid == (lo + hi + 1) \div 2
       IN IF mid * mid <= x THEN IsqrtIn(x, mid, hi)
                            ELSE IsqrtIn(x, lo, mid - 1)

Isqrt(x) == IsqrtIn(x, 0, IF x < 46340 THEN x ELSE 46340)

(***************************************************************************)
(* Program constants.                                                      *)
(***************************************************************************)
\* 1e-6, the spread below which a variable is skipped (one unit)
Epsilon == 1

\* mutant: a station of 2 observations is scored
MinStationObsTwo == 3 - 1

\* a station needs this many observations to be scored
MinStationObs == 3

\* mutant: a request of 2 observations is accepted
MinRequestObsTwo == 3 - 1

\* the endpoint refuses a request with fewer observations than this
MinRequestObs == 3

\* round(x, 2) of a measurement in units of 1e-6: the units in 0.01
UnitsPerHundredth == 10000

\* Variables to check, in the order they are checked
variables == <<"temp_out", "out_hum", "wind_speed", "bar", "rain">>

(***************************************************************************)
(* Conversions.                                                            *)
(***************************************************************************)
\* datetime.fromtimestamp(ts).strftime("%Y-%m-%d %H:%M:%S"): the calendar
\* fields of the timestamp, the date as a day number (no time zone shift)
FormatTimestamp(ts) ==
  [day    |-> ts \div 86400,
   hour   |-> (ts % 86400) \div 3600,
   minute |-> (ts % 3600) \div 60,
   second |-> ts % 60]

\* x / unit rounded to the nearest integer, halves to the even one
RoundHalfEven(x, unit) ==
  LET q == x \div unit
      r == x % unit
  IN IF 2 * r < unit THEN q
     ELSE IF 2 * r > unit THEN q + 1
     ELSE IF q % 2 = 0 THEN q ELSE q + 1

\* round(float(value), 2), in hundredths
RoundValue(value) == RoundHalfEven(value, UnitsPerHundredth)

(***************************************************************************)
(* Statistics of one variable of one station (numpy).                      *)
(***************************************************************************)
\* n*n times the population variance: n * sum(x^2) - sum(x)^2
VarNum(values) ==
  Len(values) * SumSeq(SquareSeq(values)) - SumSeq(values) * SumSeq(values)

\* np.std(values) < 1e-6
StdBelowEpsilon(values) ==
  VarNum(values) < Len(values) * Len(values) * Epsilon * Epsilon

\* std > 0
StdPositive(values) == VarNum(values) > 0

\* mutant: the distance is taken from the first value of the window
DeviationFromFirst(values, i) == Len(values) * (values[i] - values[1])

\* n times (values[i] - mean): the numerator of the Z-score over sqrt(VarNum)
Deviation(values, i) == Len(values) * values[i] - SumSeq(values)

\* mutant: the comparison is not strict
ExceedsOrEquals(values, i, threshold) ==
  LET a == Abs(Deviation(values, i)) * threshold.den
  IN a * a >= threshold.num * threshold.num * VarNum(values)

\* mutant: the comparison is inverted
BelowThreshold(values, i, threshold) ==
  LET a == Abs(Deviation(values, i)) * threshold.den
  IN a * a < threshold.num * threshold.num * VarNum(values)

\* abs(z_score) > threshold, on the squares
ExceedsThreshold(values, i, threshold) ==
  LET a == Abs(Deviation(values, i)) * threshold.den
  IN a * a > threshold.num * threshold.num * VarNum(values)

\* round(float(z_score), 2), in hundredths: the integer nearest to
\* 100 * Deviation / sqrt(VarNum), halves to the even one, with the sign
RoundZScore(values, i) ==
  LET dev == Deviation(values, i)
      a   == 200 * Abs(dev)
      D   == VarNum(values)
      q   == Isqrt((a * a) \div D)
      tie == q % 2 = 1 /\ q * q * D = a * a
      k   == IF tie /\ ((q - 1) \div 2) % 2 = 0
             THEN (q - 1) \div 2 ELSE (q + 1) \div 2
  IN IF dev < 0 THEN -k ELSE k

(***************************************************************************)
(* detect_temporal_anomalies                                               *)
(***************************************************************************)
Range(seq) == {seq[i] : i \in 1..Len(seq)}

\* the keys of station_data, in the order of their first observation
RECURSIVE StationKeys(_)
StationKeys(observations) ==
  IF observations = <<>> THEN <<>>
  ELSE LET n    == Len(observations)
           keys == StationKeys(SubSeq(observations, 1, n - 1))
           sid  == observations[n].station_id
       IN IF sid \in Range(keys) THEN keys ELSE Append(keys, sid)

\* mutant: only the station's first run of consecutive observations
RECURSIVE StationDataFirstRun(_, _)
StationDataFirstRun(observations, station_id) ==
  IF observations = <<>> THEN <<>>
  ELSE IF observations[1].station_id # station_id
  THEN StationDataFirstRun(Tail(observations), station_id)
  ELSE LET rest == Tail(observations)
           stop == {i \in DOMAIN rest : rest[i].station_id # station_id}
       IN IF stop = {} THEN observations
          ELSE SubSeq(observations, 1,
                      CHOOSE i \in stop : \A j \in stop : i <= j)

\* mutant: the list is not filtered by station
StationDataUnfiltered(observations, station_id) == observations

\* station_data[station_id]: the station's observations in arrival order
StationData(observations, station_id) ==
  SelectSeq(observations, LAMBDA obs : obs.station_id = station_id)

\* mutant: obs goes before the elements of its own timestamp
InsertBeforeEqual(sorted, obs) ==
  LET before == SelectSeq(sorted, LAMBDA x : x.timestamp < obs.timestamp)
      after  == SelectSeq(sorted, LAMBDA x : x.timestamp >= obs.timestamp)
  IN before \o <<obs>> \o after

\* one step of the stable sort: obs goes after every element whose
\* timestamp is not greater than its own
InsertByTimestamp(sorted, obs) ==
  LET before == SelectSeq(sorted, LAMBDA x : x.timestamp <= obs.timestamp)
      after  == SelectSeq(sorted, LAMBDA x : x.timestamp > obs.timestamp)
  IN before \o <<obs>> \o after

\* obs_list.sort(key=lambda x: x.timestamp): stable, ascending
RECURSIVE SortByTimestamp(_)
SortByTimestamp(obs_list) ==
  IF obs_list = <<>> THEN <<>>
  ELSE LET n == Len(obs_list)
       IN InsertByTimestamp(SortByTimestamp(SubSeq(obs_list, 1, n - 1)),
                            obs_list[n])

SetMin(S) == CHOOSE x \in S : \A y \in S : x <= y

SetMax(S) == CHOOSE x \in S : \A y \in S : y <= x

\* values = np.array([getattr(obs, var) for obs in obs_list])
ValuesOf(obs_list, var) == [i \in 1..Len(obs_list) |-> obs_list[i][var]]

\* the AnomalyResult appended for observation i of the sorted obs_list
AnomalyResult(station_id, obs_list, var, i) ==
  LET timestamps == {obs_list[j].timestamp : j \in 1..Len(obs_list)}
      values     == ValuesOf(obs_list, var)
  IN [time_start        |-> FormatTimestamp(SetMin(timestamps)),
      time_end          |-> FormatTimestamp(SetMax(timestamps)),
      station_id        |-> station_id,
      variable          |-> var,
      anomaly_timestamp |-> FormatTimestamp(obs_list[i].timestamp),
      anomaly_value     |-> RoundValue(obs_list[i][var]),
      z_score           |-> RoundZScore(values, i)]

\* What a part of the detector's loops has done: the records appended to
\* anomalies, and the (station, variable) pairs whose z_scores were computed
\* (values - mean) / std.
Nothing == [anomalies |-> <<>>, scored |-> {}]

Then(a, b) ==
  [anomalies |-> a.anomalies \o b.anomalies, scored |-> a.scored \cup b.scored]

\* the body of "for var in variables", for one variable
CheckVariable(station_id, obs_list, var, threshold) ==
  LET values == ValuesOf(obs_list, var)
  IN IF StdBelowEpsilon(values) THEN Nothing
     ELSE IF StdPositive(values)
     THEN LET flagged ==
                SelectSeq([i \in 1..Len(obs_list) |-> i],
                          LAMBDA i : ExceedsThreshold(values, i, threshold))
          IN [anomalies |->
                [k \in 1..Len(flagged) |->
                   AnomalyResult(station_id, obs_list, var, flagged[k])],
              scored |-> {<<station_id, var>>}]
     ELSE Nothing

\* mutant: a variable below the epsilon ends the loop (break for continue)
RECURSIVE CheckVariablesBreak(_, _, _, _)
CheckVariablesBreak(station_id, obs_list, threshold, v) ==
  IF v > Len(variables) THEN Nothing
  ELSE IF StdBelowEpsilon(ValuesOf(obs_list, variables[v])) THEN Nothing
  ELSE Then(CheckVariable(station_id, obs_list, variables[v], threshold),
            CheckVariablesBreak(station_id, obs_list, threshold, v + 1))

\* "for var in variables", from variable number v on: a skipped variable
\* does not end the loop
RECURSIVE CheckVariables(_, _, _, _)
CheckVariables(station_id, obs_list, threshold, v) ==
  IF v > Len(variables) THEN Nothing
  ELSE Then(CheckVariable(station_id, obs_list, variables[v], threshold),
            CheckVariables(station_id, obs_list, threshold, v + 1))

\* the body of "for station_id, obs_list in station_data.items()"
CheckStation(station_id, station_obs, threshold) ==
  LET obs_list == SortByTimestamp(station_obs)
  IN IF Len(obs_list) < MinStationObs THEN Nothing
     ELSE CheckVariables(station_id, obs_list, threshold, 1)

RECURSIVE CheckStations(_, _, _, _)
CheckStations(observations, keys, threshold, k) ==
  IF k > Len(keys) THEN Nothing
  ELSE Then(CheckStation(keys[k], StationData(observations, keys[k]),
                         threshold),
            CheckStations(observations, keys, threshold, k + 1))

\* the whole run of the detector
RunDetector(observations, threshold) ==
  CheckStations(observations, StationKeys(observations), threshold, 1)

\* its return value
detect_temporal_anomalies(observations, threshold) ==
  RunDetector(observations, threshold).anomalies


(***************************************************************************)
(* detect_anomalies: the POST /detect handler                              *)
(***************************************************************************)
NoRequest == [observations |-> <<>>, window_len |-> 0, stride |-> 0,
              threshold |-> [num |-> 0, den |-> 1]]

NoResponse == [status_code |-> 0]

NoThreshold == [num |-> 0, den |-> 1]

HTTPException(code, why) == [status_code |-> code, detail |-> why]

\* mutant: only the first window_len observations are passed on
FirstWindow(req) ==
  SubSeq(req.observations, 1,
         IF Len(req.observations) < req.window_len
         THEN Len(req.observations) ELSE req.window_len)

\* the arguments of the call detect_temporal_anomalies(request.observations,
\* threshold=request.threshold)
DetectorObservations(req) == req.observations

DetectorThreshold(req) == req.threshold

\* response = DetectionResponse(...); detection_time (the wall clock) is
\* left out and message is kept as the two counts it prints
DetectionResponse(req, found) ==
  [status_code        |-> 200,
   status             |-> IF Len(found) > 0 THEN "anomalies_found"
                                            ELSE "no_anomalies",
   message            |-> [found |-> Len(found),
                           observations |-> Len(req.observations)],
   total_observations |-> Len(req.observations),
   total_anomalies    |-> Len(found),
   parameters         |-> [window_len |-> req.window_len,
                           stride     |-> req.stride,
                           threshold  |-> req.threshold,
                           variables  |-> variables],
   anomalies          |-> found]

\* what the handler answers to a request
detect_anomalies(req) ==
  IF req.observations = <<>>
  THEN HTTPException(400, "No observations provided")
  ELSE IF Len(req.observations) < MinRequestObs
  THEN HTTPException(400, "Insufficient data")
  ELSE DetectionResponse(
         req, detect_temporal_anomalies(DetectorObservations(req),
                                        DetectorThreshold(req)))

(***************************************************************************)
(* State: the request being handled and its response, and the frame of    *)
(* the detector's call (its arguments, what it returned and the pairs it  *)
(* scored).  Nothing is kept from one request to the next.                *)
(***************************************************************************)
VARIABLES pc, request, response, detector_calls,
          observations, threshold, anomalies, scored

vars == <<pc, request, response, detector_calls,
          observations, threshold, anomalies, scored>>

NoDetectorCall ==
  /\ detector_calls' = 0
  /\ observations' = <<>>
  /\ threshold' = NoThreshold
  /\ anomalies' = <<>>
  /\ scored' = {}

DetectorCall(obs, thr) ==
  LET run == RunDetector(obs, thr)
  IN /\ detector_calls' = 1
     /\ observations' = obs
     /\ threshold' = thr
     /\ anomalies' = run.anomalies
     /\ scored' = run.scored

Init ==
  /\ pc = "idle"
  /\ request = NoRequest
  /\ response = NoResponse
  /\ detector_calls = 0
  /\ observations = <<>>
  /\ threshold = NoThreshold
  /\ anomalies = <<>>
  /\ scored = {}

\* if not request.observations: raise HTTPException(400)
RejectEmpty(req) ==
  /\ req.observations = <<>>
  /\ pc' = "done"
  /\ request' = req
  /\ response' = detect_anomalies(req)
  /\ NoDetectorCall

\* if len(request.observations) < 3: raise HTTPException(400)
RejectInsufficient(req) ==
  /\ req.observations # <<>>
  /\ Len(req.observations) < MinRequestObs
  /\ pc' = "done"
  /\ request' = req
  /\ response' = detect_anomalies(req)
  /\ NoDetectorCall

\* the try block: run the detector and wrap its list in the response (no
\* input of the model makes the detector raise, so the except branch and its
\* HTTP 500 are not taken)
Detect(req) ==
  /\ req.observations # <<>>
  /\ ~ (Len(req.observations) < MinRequestObs)
  /\ pc' = "done"
  /\ request' = req
  /\ response' = detect_anomalies(req)
  /\ DetectorCall(DetectorObservations(req), DetectorThreshold(req))

\* POST /detect: a validated request arrives and the handler runs to its end
Handle ==
  /\ pc = "idle"
  /\ \E req \in DetectionRequest :
        \/ RejectEmpty(req)
        \/ RejectInsufficient(req)
        \/ Detect(req)

\* detect_temporal_anomalies called on its own: any list, any positive
\* threshold
CallDetector ==
  /\ pc = "idle"
  /\ \E obs \in ObservationLists, thr \in DetectorThresholds :
        DetectorCall(obs, thr)
  /\ pc' = "done"
  /\ request' = NoRequest
  /\ response' = NoResponse

\* the response is sent or the call returns; nothing is kept
Finish ==
  /\ pc = "done"
  /\ pc' = "idle"
  /\ request' = NoRequest
  /\ response' = NoResponse
  /\ NoDetectorCall

Next ==
  \/ CallDetector
  \/ Handle
  \/ Finish

Spec == Init /\ [][Next]_vars

\* the detector alone, as a function of its two arguments
NextDetector ==
  \/ CallDetector
  \/ Finish

SpecDetector == Init /\ [][NextDetector]_vars

(***************************************************************************)
(* Vocabulary of the properties.  The statistics below are taken over the  *)
(* positions of the input list, without grouping or sorting it.            *)
(***************************************************************************)
\* the detector has run and returned
Called == pc = "done" /\ detector_calls = 1

\* the endpoint has answered a request
Answered == pc = "done" /\ response # NoResponse

BagOfSeq(seq) ==
  [x \in Range(seq) |-> Cardinality({i \in DOMAIN seq : seq[i] = x})]

BagOfSet(P, F(_)) ==
  [x \in {F(e) : e \in P} |-> Cardinality({e \in P : F(e) = x})]

\* the positions of station s in the list obs
PositionsOf(obs, s) == {i \in DOMAIN obs : obs[i].station_id = s}

CountOf(obs, s) == Cardinality(PositionsOf(obs, s))

RECURSIVE SumAt(_, _, _)
SumAt(obs, I, v) ==
  IF I = {} THEN 0
  ELSE LET i == CHOOSE j \in I : TRUE
       IN obs[i][v] + SumAt(obs, I \ {i}, v)

RECURSIVE SumSqAt(_, _, _)
SumSqAt(obs, I, v) ==
  IF I = {} THEN 0
  ELSE LET i == CHOOSE j \in I : TRUE
       IN obs[i][v] * obs[i][v] + SumSqAt(obs, I \ {i}, v)

\* n*n times the population variance of variable v over station s
SpreadOf(obs, s, v) ==
  LET I == PositionsOf(obs, s)
  IN Cardinality(I) * SumSqAt(obs, I, v) - SumAt(obs, I, v) * SumAt(obs, I, v)

\* n times the distance of observation i from its station's mean of v
GapOf(obs, i, v) ==
  LET I == PositionsOf(obs, obs[i].station_id)
  IN Cardinality(I) * obs[i][v] - SumAt(obs, I, v)

\* variable v of observation i is an outlier at threshold thr: the station
\* has at least 3 observations, the population standard deviation is not
\* below 1e-6 (one unit) and |z| > thr, strictly
Outlier(obs, thr, i, v) ==
  LET s == obs[i].station_id
      n == CountOf(obs, s)
      D == SpreadOf(obs, s, v)
      g == Abs(GapOf(obs, i, v))
  IN /\ n >= 3
     /\ D >= n * n
     /\ g * g * thr.den * thr.den > thr.num * thr.num * D

Outliers(obs, thr) ==
  {e \in (DOMAIN obs) \X Range(variables) : Outlier(obs, thr, e[1], e[2])}

\* the Z-score of an outlier in hundredths: the integer k within half a
\* hundredth of 100 * |gap| / sqrt(spread), with the sign of the gap
HundredthsOf(obs, i, v) ==
  LET D == SpreadOf(obs, obs[i].station_id, v)
      g == GapOf(obs, i, v)
      a == 200 * Abs(g)
      k == CHOOSE m \in 0..1000 :
             /\ (2 * m - 1) * (2 * m - 1) * D < a * a
             /\ a * a < (2 * m + 1) * (2 * m + 1) * D
  IN IF g < 0 THEN -k ELSE k

\* what identifies the record of an outlier
KeyOf(obs, e) ==
  [station_id        |-> obs[e[1]].station_id,
   variable          |-> e[2],
   anomaly_timestamp |-> FormatTimestamp(obs[e[1]].timestamp),
   z_score           |-> HundredthsOf(obs, e[1], e[2])]

KeyOfRecord(rec) ==
  [station_id        |-> rec.station_id,
   variable          |-> rec.variable,
   anomaly_timestamp |-> rec.anomaly_timestamp,
   z_score           |-> rec.z_score]

KeysOf(records) == [k \in DOMAIN records |-> KeyOfRecord(records[k])]

(***************************************************************************)
(* C1: the detector emits exactly one record for each (station, variable,  *)
(* observation) such that the station has at least 3 observations, the     *)
(* population standard deviation of the variable over the station is not   *)
(* below 1e-6 and |z| > threshold strictly, and no other record; a value   *)
(* with |z| equal to the threshold is not reported.                        *)
(***************************************************************************)
C1_ExactlyTheOutliers ==
  Called =>
    LET P == Outliers(observations, threshold)
        K(e) == KeyOf(observations, e)
    IN /\ Len(anomalies) = Cardinality(P)
       /\ BagOfSeq(KeysOf(anomalies)) = BagOfSet(P, K)

\* a call that reports an outlier of a station of 3 and leaves unreported an
\* observation of the same scored variable, beside a station of fewer than 3
C1_Witness ==
  /\ Called
  /\ \E e \in Outliers(observations, threshold) :
       /\ CountOf(observations, observations[e[1]].station_id) >= 3
       /\ \E i \in DOMAIN observations :
            /\ observations[i].station_id = observations[e[1]].station_id
            /\ ~ Outlier(observations, threshold, i, e[2])
  /\ \E s \in Stations : CountOf(observations, s) \in 1..2
  /\ Len(anomalies) >= 2

(***************************************************************************)
(* C2: for a fixed list and thresholds t1 <= t2, the detector returns at   *)
(* t2 no more records than at t1, and every record returned at t2 is also  *)
(* returned at t1.                                                         *)
(***************************************************************************)
AtMost(t1, t2) == t1.num * t2.den <= t2.num * t1.den

C2_MonotoneInThreshold ==
  Called =>
    \A t2 \in DetectorThresholds :
      AtMost(threshold, t2) =>
        LET higher == detect_temporal_anomalies(observations, t2)
        IN /\ Len(higher) <= Len(anomalies)
           /\ BagOfSeq(higher) \sqsubseteq BagOfSeq(anomalies)

\* a call whose records shrink, without vanishing, at a higher threshold
C2_Witness ==
  /\ Called
  /\ \E t2 \in DetectorThresholds :
       /\ AtMost(threshold, t2)
       /\ Len(detect_temporal_anomalies(observations, t2)) > 0
       /\ Len(detect_temporal_anomalies(observations, t2)) < Len(anomalies)

(***************************************************************************)
(* C3: the detector returns the same records, with the same                *)
(* multiplicities, for every permutation of the input list, also when      *)
(* observations of one station share a timestamp and when the order in     *)
(* which the stations are first seen changes.                              *)
(***************************************************************************)
Reorderings ==
  [n \in 0..(MaxObs + 1) |->
     {p \in [1..n -> 1..n] : \A i, j \in 1..n : p[i] = p[j] => i = j}]

Permuted(obs, p) == [i \in DOMAIN obs |-> obs[p[i]]]

C4_SmallStationsSilent ==
  /\ Called =>
       \A k \in DOMAIN anomalies :
         CountOf(observations, anomalies[k].station_id) >= 3
  /\ (Answered /\ response.status_code = 200
        /\ \A s \in Stations : CountOf(request.observations, s) < 3) =>
       /\ response.anomalies = <<>>
       /\ response.total_anomalies = 0
       /\ response.status = "no_anomalies"

\* a request with two stations: one of a single observation, whose reading
\* is that of the other station's outlier, and the other reported
C4_Witness ==
  /\ Answered
  /\ response.status_code = 200
  /\ response.total_anomalies > 0
  /\ \E i \in DOMAIN observations :
       /\ CountOf(observations, observations[i].station_id) = 1
       /\ \E j \in DOMAIN observations :
            /\ Outlier(observations, threshold, j, "temp_out")
            /\ observations[j].temp_out = observations[i].temp_out

(***************************************************************************)
(* C5: when a variable has the same value in all observations of a         *)
(* station, the detector returns no record for that (station, variable)    *)
(* at any threshold and never divides by the zero spread, and the other    *)
(* variables of the station are still scored.                              *)
(***************************************************************************)
ConstantAt(obs, s, v) ==
  \A i, j \in PositionsOf(obs, s) : obs[i][v] = obs[j][v]

OnlyStation(obs, s) == SelectSeq(obs, LAMBDA o : o.station_id = s)

RecordsOf(records, s) == SelectSeq(records, LAMBDA r : r.station_id = s)

C6_StationsIndependent ==
  Called =>
    \A s \in Stations :
      RecordsOf(anomalies, s)
        = detect_temporal_anomalies(OnlyStation(observations, s), threshold)

\* a reported station beside another station whose observations lie outside
\* its time span and differ from its own
C6_Witness ==
  /\ Called
  /\ \E s, t \in Stations :
       /\ s # t
       /\ RecordsOf(anomalies, s) # <<>>
       /\ \E j \in PositionsOf(observations, t) :
            /\ \A i \in PositionsOf(observations, s) :
                 observations[i].timestamp # observations[j].timestamp
            /\ \E i \in PositionsOf(observations, s) :
                 observations[i].temp_out # observations[j].temp_out

(***************************************************************************)
(* C7: the returned list is ordered by the position of the station's first *)
(* observation in the input, then by the variable's place in temp_out,     *)
(* out_hum, wind_speed, bar, rain, then by timestamp ascending, then, for  *)
(* observations of one station on one timestamp, by input position; it is  *)
(* never re-sorted.                                                        *)
(***************************************************************************)
FirstPosition(obs, s) ==
  CHOOSE i \in PositionsOf(obs, s) : \A j \in PositionsOf(obs, s) : i <= j

PlaceOf(v) == CHOOSE k \in DOMAIN variables : variables[k] = v

\* e comes before f in the order of the claim
Before(obs, e, f) ==
  LET a == <<FirstPosition(obs, obs[e[1]].station_id), PlaceOf(e[2]),
             obs[e[1]].timestamp, e[1]>>
      b == <<FirstPosition(obs, obs[f[1]].station_id), PlaceOf(f[2]),
             obs[f[1]].timestamp, f[1]>>
  IN \E k \in 1..4 : a[k] < b[k] /\ \A m \in 1..(k - 1) : a[m] = b[m]

\* the outliers in that order
OrderedOutliers(obs, thr) ==
  LET P == Outliers(obs, thr)
      rank(e) == 1 + Cardinality({f \in P : Before(obs, f, e)})
  IN [r \in 1..Cardinality(P) |-> CHOOSE e \in P : rank(e) = r]

C8_SizeCheck ==
  Answered =>
    IF Len(request.observations) \in {0, 1, 2}
    THEN /\ response.status_code = 400
         /\ DOMAIN response = {"status_code", "detail"}
         /\ detector_calls = 0
         /\ anomalies = <<>>
    ELSE /\ detector_calls = 1
         /\ observations = request.observations
         /\ threshold = request.threshold

\* a refused request of 2 observations of one station whose readings differ
C8_Witness ==
  /\ Answered
  /\ Len(request.observations) = 2
  /\ request.observations[1].station_id = request.observations[2].station_id
  /\ request.observations[1].temp_out # request.observations[2].temp_out
  /\ response.status_code = 400

(***************************************************************************)
(* C9: for a fixed list and threshold the anomaly list, total_anomalies    *)
(* and status of the response are the same for every accepted window_len   *)
(* and stride; the two only appear, echoed, in the response's parameters.  *)
(***************************************************************************)
C9_WindowAndStrideInert ==
  (Answered /\ response.status_code = 200) =>
    \A w \in WindowLens, st \in Strides :
      LET other == detect_anomalies(
                     [request EXCEPT !.window_len = w, !.stride = st])
      IN /\ other.anomalies = response.anomalies
         /\ other.total_anomalies = response.total_anomalies
         /\ other.status = response.status
         /\ other.parameters.window_len = w
         /\ other.parameters.stride = st
         /\ [other EXCEPT !.parameters = response.parameters] = response

\* a response with anomalies to a request whose window_len is smaller than
\* its number of observations
C9_Witness ==
  /\ Answered
  /\ response.status_code = 200
  /\ response.total_anomalies > 0
  /\ request.window_len < Len(request.observations)
  /\ request.stride > 1

====
